---- MODULE Spec2Model ----
(***************************************************************************)
(* State-machine model of the fineplay "apply" service (src/main.py):     *)
(* POST /submit-application validates an Application, builds two CSV      *)
(* exports (summary, players) and mails them through SendGrid.            *)
(*                                                                         *)
(* Text is modelled by TLA+ strings restricted to printable ASCII plus    *)
(* line feed; bytes are sequences of naturals in 0..255.  The two Korean  *)
(* literals of the source (the 400 detail, the mail subject and body) are *)
(* written here as ASCII stand-ins, since the module is ASCII only.       *)
(***************************************************************************)
EXTENDS Naturals, Sequences, FiniteSets, TLC

----------------------------------------------------------------------------
(* Bounds of the model *)

\* Longest starting lineup a request body carries.
MaxPlayers == 11

\* Longest substitutes list a request body carries.
MaxSubs == 2

\* How many seconds the clock may advance during a run.
MaxTicks == 1

----------------------------------------------------------------------------
(* Text, bytes and the encoders the program calls *)

\* The printable ASCII characters in code order: 32 (space) to 95 (_), and
\* 97 (a) to 126 (~).  Code 96 cannot be written in a TLA+ string and is left
\* out of the alphabet.
AsciiLow ==
  " !\"#$%&'()*+,-./0123456789:;<=>?@ABCDEFGHIJKLMNOPQRSTUVWXYZ[\\]^_"

AsciiHigh == "abcdefghijklmnopqrstuvwxyz{|}~"

CharAt(s, i) == SubSeq(s, i, i)

Chars ==
  {CharAt(AsciiLow, i) : i \in 1..Len(AsciiLow)}
  \cup {CharAt(AsciiHigh, i) : i \in 1..Len(AsciiHigh)}
  \cup {"\n"}

\* ord(c) for the characters of the model's alphabet.  (Joining the function
\* with the empty one makes it a table that is computed once.)
CharCode ==
  [c \in Chars |->
     IF c = "\n" THEN 10
     ELSE IF \E i \in 1..Len(AsciiLow) : CharAt(AsciiLow, i) = c
       THEN 31 + (CHOOSE i \in 1..Len(AsciiLow) : CharAt(AsciiLow, i) = c)
       ELSE 96 + (CHOOSE i \in 1..Len(AsciiHigh) : CharAt(AsciiHigh, i) = c)]
  @@ <<>>

\* s.encode("utf-8") for ASCII text: one byte per character.
Utf8Encode(s) == [i \in 1..Len(s) |-> CharCode[CharAt(s, i)]]

\* s.encode("utf-8-sig"): the byte-order mark EF BB BF, then the UTF-8 bytes.
Utf8SigEncode(s) == <<239, 187, 191>> \o Utf8Encode(s)

Digits == "0123456789"

\* str(n) / f"{n}" for a natural number.
RECURSIVE Dec(_)
Dec(n) ==
  IF n < 10 THEN CharAt(Digits, n + 1)
  ELSE Dec(n \div 10) \o CharAt(Digits, (n % 10) + 1)

\* f"{n:02d}" and f"{n:04d}" as strftime writes its fields.
Pad2(n) == IF n < 10 THEN "0" \o Dec(n) ELSE Dec(n)
Pad4(n) ==
  IF n < 10 THEN "000" \o Dec(n)
  ELSE IF n < 100 THEN "00" \o Dec(n)
  ELSE IF n < 1000 THEN "0" \o Dec(n)
  ELSE Dec(n)

\* "".join(parts[lo..hi]), by halves.
RECURSIVE ConcatRange(_, _, _)
ConcatRange(parts, lo, hi) ==
  IF lo > hi THEN ""
  ELSE IF lo = hi THEN parts[lo]
  ELSE LET mid == (lo + hi) \div 2 IN
       ConcatRange(parts, lo, mid) \o ConcatRange(parts, mid + 1, hi)

Concat(parts) == ConcatRange(parts, 1, Len(parts))

\* str.replace(old, new) for a one-character old.
Replace(s, old, new) ==
  Concat([i \in 1..Len(s) |-> IF CharAt(s, i) = old THEN new ELSE CharAt(s, i)])

Contains(s, c) == \E i \in 1..Len(s) : CharAt(s, i) = c

B64Alphabet ==
  "ABCDEFGHIJKLMNOPQRSTUVWXYZabcdefghijklmnopqrstuvwxyz0123456789+/"

B64Char(n) == CharAt(B64Alphabet, n + 1)

\* The four characters of the group of up to three bytes that starts at b[i];
\* a group of one or two bytes is padded with "=".
B64Group(b, i) ==
  LET left == Len(b) - i + 1 IN
  IF left = 1 THEN
    B64Char(b[i] \div 4) \o B64Char((b[i] % 4) * 16) \o "=="
  ELSE IF left = 2 THEN
    B64Char(b[i] \div 4)
    \o B64Char((b[i] % 4) * 16 + (b[i + 1] \div 16))
    \o B64Char((b[i + 1] % 16) * 4) \o "="
  ELSE
    B64Char(b[i] \div 4)
    \o B64Char((b[i] % 4) * 16 + (b[i + 1] \div 16))
    \o B64Char((b[i + 1] % 16) * 4 + (b[i + 2] \div 64))
    \o B64Char(b[i + 2] % 64)

\* base64.b64encode(b).decode("utf-8")
B64Encode(b) ==
  Concat([g \in 1..((Len(b) + 2) \div 3) |-> B64Group(b, 3 * g - 2)])

----------------------------------------------------------------------------
(* datetime.now(timezone.utc).strftime("%Y%m%d_%H%M%S") *)

\* The civil date of a day count (day 0 is 1970-01-01) in the proleptic
\* Gregorian calendar, by 400-year eras; years are counted from 1 March so
\* that the leap day comes last.
CivilFromDays(days) ==
  LET z   == days + 719468
      era == z \div 146097
      doe == z % 146097
      yoe == (doe - (doe \div 1460) + (doe \div 36524) - (doe \div 146096)) \div 365
      doy == doe - (365 * yoe + (yoe \div 4) - (yoe \div 100))
      mp  == (5 * doy + 2) \div 153
      m   == IF mp < 10 THEN mp + 3 ELSE mp - 9
  IN  [year  |-> yoe + era * 400 + (IF m <= 2 THEN 1 ELSE 0),
       month |-> m,
       day   |-> doy - ((153 * mp + 2) \div 5) + 1]

\* The clock is a count of seconds since 1970-01-01T00:00:00Z.
Strftime(now) ==
  LET d   == CivilFromDays(now \div 86400)
      sod == now % 86400
  IN  Pad4(d.year) \o Pad2(d.month) \o Pad2(d.day) \o "_"
      \o Pad2(sod \div 3600) \o Pad2((sod % 3600) \div 60) \o Pad2(sod % 60)

----------------------------------------------------------------------------
(* pandas.DataFrame and DataFrame.to_csv(index=False) *)

\* A cell of a data frame: a str, an int, or None.
Str(s) == [k |-> "str", v |-> s]
Int(n) == [k |-> "int", v |-> n]
None == [k |-> "null"]

\* csv.writer with QUOTE_MINIMAL: a field holding the delimiter, the quote
\* character or a line break is quoted, and its quote characters doubled.
CsvField(s) ==
  IF Contains(s, ",") \/ Contains(s, "\"") \/ Contains(s, "\n")
    THEN "\"" \o Replace(s, "\"", "\"\"") \o "\""
    ELSE s

\* None is written as the empty na_rep, an int in decimal.
CsvCell(cell) ==
  IF cell.k = "null" THEN ""
  ELSE IF cell.k = "int" THEN Dec(cell.v)
  ELSE CsvField(cell.v)

\* sep.join(fields)
Join(fields, sep) ==
  Concat([i \in 1..Len(fields) |->
            IF i < Len(fields) THEN fields[i] \o sep ELSE fields[i]])

CsvLine(fields) == Join(fields, ",") \o "\n"

\* The header line, then one line per row, each ended by a line feed.
ToCsv(df) ==
  CsvLine([c \in 1..Len(df.columns) |-> CsvField(df.columns[c])])
  \o Concat([i \in 1..Len(df.rows) |->
               CsvLine([c \in 1..Len(df.columns) |->
                          CsvCell(df.rows[i][df.columns[c]])])])

----------------------------------------------------------------------------
(* The request schema: class Player, class Application *)

\* A JSON value of a request body, or the setting of an environment
\* variable: a key that is absent, null, a string, a list.
Absent == [k |-> "absent"]
List(xs) == [k |-> "list", v |-> xs]

RequiredStr ==
  {"plan", "match_date", "kickoff_time", "location", "home_team",
   "away_team", "video_url_1", "formation"}

OptionalStr == {"representative_name", "representative_contact", "video_url_2"}

RosterFields == {"players", "substitutes"}

PlayerFields == {"name", "position", "number"}

\* A list entry parses as a Player when it has the three fields.
ValidPlayer(p) == DOMAIN p = PlayerFields

\* What the framework checks before the handler runs: a required field is a
\* string, an optional one may be absent or null, a roster may be absent and
\* otherwise is a list of players.
SchemaValid(b) ==
  /\ \A f \in RequiredStr : b[f].k = "str"
  /\ \A f \in OptionalStr : b[f].k \in {"absent", "null", "str"}
  /\ \A f \in RosterFields :
       \/ b[f].k = "absent"
       \/ /\ b[f].k = "list"
          /\ \A i \in 1..Len(b[f].v) : ValidPlayer(b[f].v[i])

\* The Application the handler receives: required fields as strings, the
\* optional ones as a str cell ("" by default) or None, the rosters as
\* sequences of players (empty by default).
ParseApplication(b) ==
  [f \in RequiredStr \cup OptionalStr \cup RosterFields |->
     IF f \in RequiredStr THEN b[f].v
     ELSE IF f \in OptionalStr
       THEN (IF b[f].k = "absent" THEN Str("") ELSE b[f])
       ELSE (IF b[f].k = "absent" THEN <<>> ELSE b[f].v)]

----------------------------------------------------------------------------
(* submit_application, step by step *)

\* The roster size below which a request is refused.
MinPlayers == 11

\* Faulty variant: the substitutes are left out of the count.
TotalPlayersStartersOnly(data) == Len(data.players)

\* total_players = len(data.players) + len(data.substitutes)
TotalPlayers(data) == Len(data.players) + Len(data.substitutes)

\* Faulty variant: the limit is off by one.
RosterTooSmallOffByOne(total_players) == total_players < MinPlayers - 1

\* if total_players < 11: raise HTTPException(400)
RosterTooSmall(total_players) == total_players < MinPlayers

\* Faulty variant: only the first "/" is replaced, as replace("/", "_", 1).
SafeHomeFirstSlashOnly(home_team) ==
  LET h == IF home_team # "" THEN home_team ELSE "HOME" IN
  Concat([i \in 1..Len(h) |->
            IF CharAt(h, i) = "/" /\ ~Contains(SubSeq(h, 1, i - 1), "/")
              THEN "_" ELSE CharAt(h, i)])

\* safe_home = (data.home_team or "HOME").replace("/", "_")
SafeHome(home_team) ==
  Replace(IF home_team # "" THEN home_team ELSE "HOME", "/", "_")

SummaryFilename(safe_home, ts) ==
  "fineplay_application_summary_" \o safe_home \o "_" \o ts \o ".csv"

PlayersFilename(safe_home, ts) ==
  "fineplay_application_players_" \o safe_home \o "_" \o ts \o ".csv"

SummaryColumns ==
  <<"created_at_utc", "plan", "match_date", "kickoff_time", "location",
    "home_team", "away_team", "representative_name",
    "representative_contact", "video_url_1", "video_url_2", "formation",
    "players_count", "substitutes_count", "total_count">>

\* The one dict of the summary data frame.
SummaryRow(data, ts, total_players) ==
  [created_at_utc         |-> Str(ts),
   plan                   |-> Str(data.plan),
   match_date             |-> Str(data.match_date),
   kickoff_time           |-> Str(data.kickoff_time),
   location               |-> Str(data.location),
   home_team              |-> Str(data.home_team),
   away_team              |-> Str(data.away_team),
   representative_name    |-> data.representative_name,
   representative_contact |-> data.representative_contact,
   video_url_1            |-> Str(data.video_url_1),
   video_url_2            |-> data.video_url_2,
   formation              |-> Str(data.formation),
   players_count          |-> Int(Len(data.players)),
   substitutes_count      |-> Int(Len(data.substitutes)),
   total_count            |-> Int(total_players)]

SummaryDf(data, ts, total_players) ==
  [columns |-> SummaryColumns, rows |-> <<SummaryRow(data, ts, total_players)>>]

PlayerColumns == <<"type", "name", "position", "number">>

PlayerRow(type, p) ==
  [type |-> Str(type), name |-> Str(p.name), position |-> Str(p.position),
   number |-> Str(p.number)]

\* Faulty variant: the two loops in the other order.
PlayerRowsSubsFirst(data) ==
  [j \in 1..Len(data.substitutes) |-> PlayerRow("sub", data.substitutes[j])]
  \o [i \in 1..Len(data.players) |-> PlayerRow("starter", data.players[i])]

\* The two loops that fill player_rows: the starters, then the substitutes.
PlayerRows(data) ==
  [i \in 1..Len(data.players) |-> PlayerRow("starter", data.players[i])]
  \o [j \in 1..Len(data.substitutes) |-> PlayerRow("sub", data.substitutes[j])]

PlayersDf(player_rows) == [columns |-> PlayerColumns, rows |-> player_rows]

\* df.to_csv(index=False, encoding="utf-8-sig").encode("utf-8-sig")
CsvBytes(df) == Utf8SigEncode(ToCsv(df))

\* attachments = [{summary...}, {players...}]
Attachments(summary_filename, summary_bytes, players_filename, players_bytes) ==
  <<[filename |-> summary_filename, data |-> summary_bytes, type |-> "text/csv"],
    [filename |-> players_filename, data |-> players_bytes, type |-> "text/csv"]>>

----------------------------------------------------------------------------
(* The environment and sendgrid_send_email *)

\* os.environ.get(name): None when the variable is not set.
EnvGet(e, name) == IF e[name].k = "absent" THEN None ELSE e[name]

\* os.environ.get(name, default)
EnvGetDefault(e, name, default) ==
  IF e[name].k = "absent" THEN default ELSE e[name].v

\* Faulty variant: OPS_EMAIL is not consulted.
ToEmailDefaultOnly(e) == "official@fineplay.kr"

\* to_email = os.environ.get("OPS_EMAIL", "official@fineplay.kr")
ToEmail(e) == EnvGetDefault(e, "OPS_EMAIL", "official@fineplay.kr")

\* from_email = os.environ.get("SENDGRID_FROM_EMAIL", "no-reply@fineplay.kr")
FromEmail(e) == EnvGetDefault(e, "SENDGRID_FROM_EMAIL", "no-reply@fineplay.kr")

\* Faulty variant: the test is api_key == "", which None passes.
ApiKeyMissingOnlyEmpty(api_key) == api_key.k = "str" /\ api_key.v = ""

\* if not api_key: None and the empty string are both falsy.
ApiKeyMissing(api_key) == api_key.k = "null" \/ api_key.v = ""

\* Faulty variant: only the first attachment is taken.
SgAttachmentsFirstOnly(attachments) ==
  [i \in 1..(IF Len(attachments) > 0 THEN 1 ELSE 0) |->
     [content     |-> B64Encode(attachments[i].data),
      type        |-> attachments[i].type,
      filename    |-> attachments[i].filename,
      disposition |-> "attachment"]]

\* The loop over attachments: each is base64-encoded and kept in order.
SgAttachments(attachments) ==
  [i \in 1..Len(attachments) |->
     [content     |-> B64Encode(attachments[i].data),
      type        |-> attachments[i].type,
      filename    |-> attachments[i].filename,
      disposition |-> "attachment"]]

\* How an f-string writes a value: None as "None".
PyStr(cell) == IF cell.k = "null" THEN "None" ELSE cell.v

\* The JSON document and the headers handed to requests.post.
Payload(api_key, from_email, to_email, subject, content, attachments) ==
  [url           |-> "https://api.sendgrid.com/v3/mail/send",
   authorization |-> "Bearer " \o PyStr(api_key),
   to            |-> <<to_email>>,
   from          |-> from_email,
   subject       |-> subject,
   content       |-> <<[type |-> "text/plain", value |-> content]>>,
   attachments   |-> SgAttachments(attachments)]

\* Faulty variant: every 2xx status counts as sent.
IsSuccessAny2xx(status_code) == status_code \div 100 = 2

\* if r.status_code not in (200, 202): raise
IsSuccess(status_code) == status_code \in {200, 202}

SendGridError(status_code, text) ==
  "RuntimeError: SendGrid error: " \o Dec(status_code) \o " " \o text

----------------------------------------------------------------------------
(* Inputs: request bodies, environments, provider answers *)

Positions == <<"GK", "DF", "MF", "FW">>

\* The i-th player of the test squad; every fifth name holds a comma.
MakePlayer(i) ==
  [name     |-> IF i % 5 = 0 THEN "Lee, " \o Dec(i) ELSE "P" \o Dec(i),
   position |-> Positions[(i % 4) + 1],
   number   |-> Dec(i)]

Lineup(n, first) == [i \in 1..n |-> MakePlayer(first + i - 1)]

BaseBody(home_team, players, substitutes) ==
  [plan                   |-> Str("pro"),
   match_date             |-> Str("2024-03-01"),
   kickoff_time           |-> Str("14:00"),
   location               |-> Str("Seoul, KR"),
   home_team              |-> Str(home_team),
   away_team              |-> Str("FC \"B\""),
   representative_name    |-> Str("Kim"),
   representative_contact |-> None,
   video_url_1            |-> Str("https://v.kr/1"),
   video_url_2            |-> Absent,
   formation              |-> Str("4-4-2"),
   players                |-> List(players),
   substitutes            |-> List(substitutes)]

HomeTeams == {"", "/", "A/B/C", "Team/A"}

\* Rosters around the limit, as <<starters, substitutes>>: starters alone,
\* starters with substitutes, substitutes alone.
Rosters ==
  {<<n, 0>> : n \in {0} \cup ((MaxPlayers - 2)..MaxPlayers)}
  \cup {<<MaxPlayers - 2, m>> : m \in 1..MaxSubs}
  \cup {<<0, MaxSubs>>, <<MaxPlayers, MaxSubs>>}

ValidBodies ==
  {BaseBody(h, Lineup(ro[1], 1), Lineup(ro[2], 21)) :
     h \in HomeTeams, ro \in Rosters}

\* Bodies the schema refuses, and one whose rosters are left out.
OddBodies ==
  LET b == BaseBody("Team/A", Lineup(MaxPlayers, 1), <<>>) IN
  {[b EXCEPT !.plan = Absent],
   [b EXCEPT !.home_team = None],
   [b EXCEPT !.players = List(<<[name |-> "P1", position |-> "GK"]>>)],
   [b EXCEPT !.players = Absent, !.substitutes = Absent]}

Bodies == ValidBodies \cup OddBodies

\* The bodies of the concurrent runs: two accepted with different home
\* teams and rosters, one below the roster limit, one the schema refuses.
ConcurrentBodies ==
  {BaseBody("Team/A", Lineup(MaxPlayers, 1), <<>>),
   BaseBody("A/B/C", Lineup(MaxPlayers - 2, 1), Lineup(MaxSubs, 21)),
   BaseBody("Team/A", Lineup(MaxPlayers - 2, 1), Lineup(1, 21)),
   [BaseBody("Team/A", Lineup(MaxPlayers, 1), <<>>) EXCEPT !.plan = Absent]}

\* Each variable unset or set; the key and the recipient may be set to the
\* empty string.
Envs ==
  [SENDGRID_API_KEY    : {Absent, Str(""), Str("SG.k1")},
   SENDGRID_FROM_EMAIL : {Absent, Str("app@fineplay.kr")},
   OPS_EMAIL           : {Absent, Str(""), Str("ops@fineplay.kr")}]

ConcurrentEnvs ==
  {e \in Envs : /\ e.SENDGRID_API_KEY # Str("")
                /\ e.SENDGRID_FROM_EMAIL = Absent
                /\ e.OPS_EMAIL # Str("")}

\* What requests.post returns, or that it raises (a timeout after 20 s, a
\* connection error).
ProviderAnswers ==
  {[raised |-> FALSE, status_code |-> 200, text |-> ""],
   [raised |-> FALSE, status_code |-> 202, text |-> ""],
   [raised |-> FALSE, status_code |-> 204, text |-> ""],
   [raised |-> FALSE, status_code |-> 401, text |-> "{\"errors\":[\"denied\"]}"],
   [raised |-> FALSE, status_code |-> 503, text |-> "busy"],
   [raised |-> TRUE,  status_code |-> 0,   text |-> "ReadTimeout"]}

\* 2024-02-29T23:59:59Z and 2024-12-31T23:59:59Z: the next second starts
\* another day and month, or another year.
ClockStarts == {1709251199, 1735689599}

\* The concurrent runs start at the first of them.
ConcurrentClockStarts == {1709251199}

\* The requests of a concurrent run.
Reqs == {"r1", "r2"}

----------------------------------------------------------------------------
(* State *)

VARIABLES
  clock,     \* seconds since the epoch, as datetime.now reads it
  ticks,     \* how far the clock has advanced during the run
  env,       \* os.environ: the three variables the service reads
  body,      \* body[r]: the JSON body of request r
  pc,        \* pc[r]: where the handling of request r stands
  frame,     \* frame[r]: the local variables of submit_application and
             \* of sendgrid_send_email for request r
  response,  \* response[r]: what the client of request r is answered
  posted,    \* posted[r]: the payloads the provider received from request r
  trace      \* trace[r]: the steps request r has gone through, in order

vars == <<clock, ticks, env, body, pc, frame, response, posted, trace>>

\* The locals before they are assigned.
NoFrame ==
  [data             |-> <<>>,
   total_players    |-> 0,
   ts               |-> "",
   safe_home        |-> "",
   summary_filename |-> "",
   players_filename |-> "",
   summary_df       |-> [columns |-> <<>>, rows |-> <<>>],
   player_rows      |-> <<>>,
   players_df       |-> [columns |-> <<>>, rows |-> <<>>],
   summary_bytes    |-> <<>>,
   players_bytes    |-> <<>>,
   to_email         |-> "",
   attachments      |-> <<>>,
   api_key          |-> None,
   from_email       |-> "",
   payload          |-> <<>>,
   r                |-> [raised |-> FALSE, status_code |-> 0, text |-> ""]]

NoResponse == [status |-> 0, body |-> <<>>, exc |-> ""]

\* The 400 detail; the source's text is Korean ("at least 11 starters
\* must be entered").
RosterDetail == "at least 11 (starting) players are required"

\* The mail's subject and body; Korean in the source.
Subject == "[Fine Play] new analysis application received"
Content == "A new analysis application was received. See the attached CSV files."

\* An exception no handler catches: the framework answers 500.
Unhandled(exc) == [status |-> 500, body |-> "Internal Server Error", exc |-> exc]

\* The framework's answer to a body the schema refuses.
ValidationError ==
  [status |-> 422, body |-> [detail |-> "validation error"], exc |-> ""]

\* raise HTTPException(status_code=400, detail=...)
BadRequest == [status |-> 400, body |-> [detail |-> RosterDetail], exc |-> ""]

\* raise RuntimeError("SENDGRID_API_KEY is not set")
KeyNotSet == Unhandled("RuntimeError: SENDGRID_API_KEY is not set")

\* {"status": "ok", "sent_to": to_email}
Ok(to_email) ==
  [status |-> 200, body |-> [status |-> "ok", sent_to |-> to_email], exc |-> ""]

\* How the request ends once requests.post has returned or raised: its
\* exception or the sender's goes unhandled, or the handler returns.
AfterPost(ans, to_email) ==
  IF ans.raised THEN Unhandled("requests: " \o ans.text)
  ELSE IF ~IsSuccess(ans.status_code)
    THEN Unhandled(SendGridError(ans.status_code, ans.text))
  ELSE Ok(to_email)

\* The service is up and the requests rs have arrived.
InitWith(rs, bodies, envs, starts) ==
  /\ clock \in starts
  /\ ticks = 0
  /\ env \in envs
  /\ body \in [rs -> bodies]
  /\ pc = [r \in rs |-> "recv"]
  /\ frame = [r \in rs |-> NoFrame]
  /\ response = [r \in rs |-> NoResponse]
  /\ posted = [r \in rs |-> <<>>]
  /\ trace = [r \in rs |-> <<>>]

\* One request, any body and environment.
Init == InitWith({"r1"}, Bodies, Envs, ClockStarts)

\* Two requests in flight at once.
InitConcurrent ==
  InitWith(Reqs, ConcurrentBodies, ConcurrentEnvs, ConcurrentClockStarts)

----------------------------------------------------------------------------
(* Steps *)

\* The clock advances by a second.
Tick ==
  /\ ticks < MaxTicks
  /\ clock' = clock + 1
  /\ ticks' = ticks + 1
  /\ UNCHANGED <<env, body, pc, frame, response, posted, trace>>

\* The framework parses the body into an Application, or answers 422
\* without calling the handler.
Receive(r) ==
  /\ pc[r] = "recv"
  /\ IF SchemaValid(body[r])
       THEN /\ frame' = [frame EXCEPT ![r].data = ParseApplication(body[r])]
            /\ pc' = [pc EXCEPT ![r] = "check"]
            /\ UNCHANGED <<response, trace>>
       ELSE /\ response' = [response EXCEPT ![r] = ValidationError]
            /\ trace' = [trace EXCEPT ![r] = Append(@, "respond")]
            /\ pc' = [pc EXCEPT ![r] = "done"]
            /\ UNCHANGED frame
  /\ UNCHANGED <<clock, ticks, env, body, posted>>

\* The roster check that opens the handler.
CheckRoster(r) ==
  /\ pc[r] = "check"
  /\ LET total_players == TotalPlayers(frame[r].data) IN
     /\ frame' = [frame EXCEPT ![r].total_players = total_players]
     /\ IF RosterTooSmall(total_players)
          THEN /\ response' = [response EXCEPT ![r] = BadRequest]
               /\ trace' = [trace EXCEPT ![r] = Append(@, "respond")]
               /\ pc' = [pc EXCEPT ![r] = "done"]
          ELSE /\ pc' = [pc EXCEPT ![r] = "stamp"]
               /\ UNCHANGED <<response, trace>>
  /\ UNCHANGED <<clock, ticks, env, body, posted>>

\* ts is read from the clock, and the two file names are made from it.
Stamp(r) ==
  /\ pc[r] = "stamp"
  /\ LET ts        == Strftime(clock)
         safe_home == SafeHome(frame[r].data.home_team)
     IN frame' = [frame EXCEPT
          ![r].ts = ts,
          ![r].safe_home = safe_home,
          ![r].summary_filename = SummaryFilename(safe_home, ts),
          ![r].players_filename = PlayersFilename(safe_home, ts)]
  /\ pc' = [pc EXCEPT ![r] = "export"]
  /\ UNCHANGED <<clock, ticks, env, body, response, posted, trace>>

\* Faulty variant: the clock is read again for the summary row.
CreatedAtNow(r) == Strftime(clock)

\* created_at_utc of the summary row: the local ts.
CreatedAt(r) == frame[r].ts

\* The two data frames and their CSV bytes.
BuildExport(r) ==
  /\ pc[r] = "export"
  /\ LET f           == frame[r]
         summary_df  == SummaryDf(f.data, CreatedAt(r), f.total_players)
         player_rows == PlayerRows(f.data)
         players_df  == PlayersDf(player_rows)
     IN frame' = [frame EXCEPT
          ![r].summary_df = summary_df,
          ![r].player_rows = player_rows,
          ![r].players_df = players_df,
          ![r].summary_bytes = CsvBytes(summary_df),
          ![r].players_bytes = CsvBytes(players_df)]
  /\ trace' = [trace EXCEPT ![r] = Append(@, "export")]
  /\ pc' = [pc EXCEPT ![r] = "notify"]
  /\ UNCHANGED <<clock, ticks, env, body, response, posted>>

\* Faulty variant: the export buffers are module-level, so a request attaches
\* what another request exported when there is one.
SharedAttachments(r) ==
  LET others == {q \in DOMAIN pc : q # r /\ frame[q].summary_bytes # <<>>}
      q == IF others = {} THEN r ELSE CHOOSE o \in others : TRUE
  IN  Attachments(frame[q].summary_filename, frame[q].summary_bytes,
                  frame[q].players_filename, frame[q].players_bytes)

\* The attachments list of request r, made of its own locals.
RequestAttachments(r) ==
  Attachments(frame[r].summary_filename, frame[r].summary_bytes,
              frame[r].players_filename, frame[r].players_bytes)

\* The recipient is resolved, the attachments are listed and
\* sendgrid_send_email is called: it raises when the key is missing and
\* otherwise builds the payload.
Notify(r) ==
  /\ pc[r] = "notify"
  /\ LET to_email    == ToEmail(env)
         attachments == RequestAttachments(r)
         api_key     == EnvGet(env, "SENDGRID_API_KEY")
         from_email  == FromEmail(env)
     IN
     IF ApiKeyMissing(api_key)
       THEN /\ frame' = [frame EXCEPT
                 ![r].to_email = to_email,
                 ![r].attachments = attachments,
                 ![r].api_key = api_key,
                 ![r].from_email = from_email]
            /\ response' = [response EXCEPT ![r] = KeyNotSet]
            /\ trace' = [trace EXCEPT ![r] = @ \o <<"sender", "respond">>]
            /\ pc' = [pc EXCEPT ![r] = "done"]
       ELSE /\ frame' = [frame EXCEPT
                 ![r].to_email = to_email,
                 ![r].attachments = attachments,
                 ![r].api_key = api_key,
                 ![r].from_email = from_email,
                 ![r].payload = Payload(api_key, from_email, to_email,
                                        Subject, Content, attachments)]
            /\ trace' = [trace EXCEPT ![r] = Append(@, "sender")]
            /\ pc' = [pc EXCEPT ![r] = "post"]
            /\ UNCHANGED response
  /\ UNCHANGED <<clock, ticks, env, body, posted>>

\* requests.post sends the payload to the provider.
Post(r) ==
  /\ pc[r] = "post"
  /\ posted' = [posted EXCEPT ![r] = Append(@, frame[r].payload)]
  /\ trace' = [trace EXCEPT ![r] = Append(@, "post")]
  /\ pc' = [pc EXCEPT ![r] = "await"]
  /\ UNCHANGED <<clock, ticks, env, body, frame, response>>

\* requests.post returns or raises; the sender raises on a status other
\* than 200 and 202; otherwise the handler answers.
Answer(r) ==
  /\ pc[r] = "await"
  /\ \E ans \in ProviderAnswers :
       /\ frame' = [frame EXCEPT ![r].r = ans]
       /\ response' = [response EXCEPT ![r] = AfterPost(ans, frame[r].to_email)]
  /\ trace' = [trace EXCEPT ![r] = Append(@, "respond")]
  /\ pc' = [pc EXCEPT ![r] = "done"]
  /\ UNCHANGED <<clock, ticks, env, body, posted>>

Next ==
  \/ Tick
  \/ \E r \in DOMAIN pc : Receive(r)
  \/ \E r \in DOMAIN pc : CheckRoster(r)
  \/ \E r \in DOMAIN pc : Stamp(r)
  \/ \E r \in DOMAIN pc : BuildExport(r)
  \/ \E r \in DOMAIN pc : Notify(r)
  \/ \E r \in DOMAIN pc : Post(r)
  \/ \E r \in DOMAIN pc : Answer(r)

Spec == Init /\ [][Next]_vars

Concurrent == InitConcurrent /\ [][Next]_vars

----------------------------------------------------------------------------
(* Properties *)

Has(seq, x) == \E i \in 1..Len(seq) : seq[i] = x

Count(seq, x) == Cardinality({i \in 1..Len(seq) : seq[i] = x})

\* The roster size of request r's body, for a body the schema accepts.
RosterSize(r) ==
  LET app == ParseApplication(body[r]) IN Len(app.players) + Len(app.substitutes)

\* No export artifact exists in request r and its sender was not entered.
NoSideEffect(r) ==
  /\ ~Has(trace[r], "export")
  /\ ~Has(trace[r], "sender")
  /\ ~Has(trace[r], "post")
  /\ posted[r] = <<>>
  /\ frame[r].summary_bytes = <<>>
  /\ frame[r].players_bytes = <<>>
  /\ frame[r].attachments = <<>>
  /\ frame[r].summary_filename = ""
  /\ frame[r].players_filename = ""

\* C1: a request whose rosters hold fewer than 11 players is answered 400
\* with the roster message, and at no point of its handling is an export
\* built, the sender entered or the provider called; this is so under
\* every environment, the one without SENDGRID_API_KEY included.
C1_SmallRosterRejected ==
  \A r \in DOMAIN pc :
    (SchemaValid(body[r]) /\ RosterSize(r) < 11) =>
      /\ NoSideEffect(r)
      /\ pc[r] \in {"recv", "check", "done"}
      /\ pc[r] = "done" =>
           /\ response[r].status = 400
           /\ response[r].body = [detail |-> RosterDetail]
           /\ response[r].exc = ""

\* A request with ten players was answered 400 while the key was not set.
C1_Witness ==
  \E r \in DOMAIN pc :
    /\ SchemaValid(body[r]) /\ RosterSize(r) = 10
    /\ env.SENDGRID_API_KEY = Absent
    /\ pc[r] = "done" /\ response[r].status = 400

\* C2: with SENDGRID_API_KEY absent from the environment, a request with at
\* least 11 players never reaches the provider, is never answered with the
\* success payload, and ends as the unhandled "SENDGRID_API_KEY is not set"
\* failure.
C2_MissingKeyFailsBeforePost ==
  \A r \in DOMAIN pc :
    (env.SENDGRID_API_KEY = Absent /\ SchemaValid(body[r]) /\ RosterSize(r) >= 11) =>
      /\ posted[r] = <<>>
      /\ ~Has(trace[r], "post")
      /\ pc[r] \notin {"post", "await"}
      /\ response[r].status # 200
      /\ pc[r] = "done" =>
           /\ response[r].status = 500
           /\ response[r].exc = "RuntimeError: SENDGRID_API_KEY is not set"
           /\ trace[r] = <<"export", "sender", "respond">>

\* A request with a full roster ended in the configuration failure.
C2_Witness ==
  \E r \in DOMAIN pc :
    /\ env.SENDGRID_API_KEY = Absent
    /\ SchemaValid(body[r]) /\ RosterSize(r) >= 11
    /\ pc[r] = "done" /\ response[r].status = 500

\* Request r has the provider's answer, a status code and a text.
Answered(r) == pc[r] = "done" /\ Has(trace[r], "post") /\ ~frame[r].r.raised

\* C3: when the provider answers with a status other than 200 and 202 the
\* request ends as an unhandled error whose message holds that status code
\* and the response text, not with the success payload; when it answers 200
\* or 202 no error is raised; and the provider is called at most once in a
\* request.
C3_NonSuccessRaisesOnce ==
  \A r \in DOMAIN pc :
    /\ Len(posted[r]) <= 1
    /\ Count(trace[r], "post") <= 1
    /\ Answered(r) =>
         LET a == frame[r].r IN
         IF a.status_code \notin {200, 202}
           THEN /\ response[r].status = 500
                /\ response[r].exc =
                     "RuntimeError: SendGrid error: " \o Dec(a.status_code)
                     \o " " \o a.text
                /\ Len(posted[r]) = 1
           ELSE /\ response[r].status = 200
                /\ response[r].exc = ""

\* The provider answered 204 and the request ended as an error.
C3_Witness ==
  \E r \in DOMAIN pc :
    /\ Answered(r) /\ frame[r].r.status_code = 204
    /\ response[r].status = 500 /\ Len(posted[r]) = 1

\* C4: the success payload is answered only once the sender has returned in
\* that request (the provider was called and answered 200 or 202), and its
\* sent_to is the address the mail went to: OPS_EMAIL when it is set, and
\* official@fineplay.kr when it is not.
C4_OkOnlyAfterSend ==
  \A r \in DOMAIN pc :
    response[r].status = 200 =>
      /\ trace[r] = <<"export", "sender", "post", "respond">>
      /\ Len(posted[r]) = 1
      /\ ~frame[r].r.raised /\ frame[r].r.status_code \in {200, 202}
      /\ LET sent == posted[r][1].to IN
         /\ Len(sent) = 1
         /\ response[r].body = [status |-> "ok", sent_to |-> sent[1]]
         /\ sent[1] = IF env.OPS_EMAIL = Absent THEN "official@fineplay.kr"
                      ELSE env.OPS_EMAIL.v

\* A request succeeded with OPS_EMAIL set to an address.
C4_Witness ==
  \E r \in DOMAIN pc :
    /\ response[r].status = 200
    /\ env.OPS_EMAIL = Str("ops@fineplay.kr")
    /\ response[r].body.sent_to = "ops@fineplay.kr"

\* Request r has built its export.
Exported(r) == Has(trace[r], "export")

\* C5: the roster table of an accepted request has one row per player:
\* row i is "starter" with the name, position and number of players[i],
\* and row len(players)+j is "sub" with those of substitutes[j]; there are
\* len(players)+len(substitutes) >= 11 rows, starters first, each group in
\* the order submitted.
C5_RosterRows ==
  \A r \in DOMAIN pc :
    Exported(r) =>
      LET app  == ParseApplication(body[r])
          np   == Len(app.players)
          ns   == Len(app.substitutes)
          rows == frame[r].players_df.rows
      IN
      /\ np + ns >= 11
      /\ Len(rows) = np + ns
      /\ frame[r].players_df.columns = <<"type", "name", "position", "number">>
      /\ \A i \in 1..np :
           rows[i] = [type     |-> Str("starter"),
                      name     |-> Str(app.players[i].name),
                      position |-> Str(app.players[i].position),
                      number   |-> Str(app.players[i].number)]
      /\ \A j \in 1..ns :
           rows[np + j] = [type     |-> Str("sub"),
                           name     |-> Str(app.substitutes[j].name),
                           position |-> Str(app.substitutes[j].position),
                           number   |-> Str(app.substitutes[j].number)]

\* An export was built from starters and substitutes together.
C5_Witness ==
  \E r \in DOMAIN pc :
    /\ Exported(r)
    /\ Len(frame[r].data.players) >= 2
    /\ Len(frame[r].data.substitutes) >= 2
    /\ Len(frame[r].players_df.rows) >= 11

\* C6: the summary table of an export has exactly one row, whose
\* players_count and substitutes_count are the lengths of the two rosters
\* and whose total_count is their sum, at least 11.
C6_SummaryCounts ==
  \A r \in DOMAIN pc :
    Exported(r) =>
      LET app  == ParseApplication(body[r])
          rows == frame[r].summary_df.rows
      IN
      /\ Len(rows) = 1
      /\ rows[1].players_count = Int(Len(app.players))
      /\ rows[1].substitutes_count = Int(Len(app.substitutes))
      /\ rows[1].total_count.k = "int"
      /\ rows[1].total_count.v =
           rows[1].players_count.v + rows[1].substitutes_count.v
      /\ rows[1].total_count.v >= 11

\* A summary was built for a roster with starters and substitutes.
C6_Witness ==
  \E r \in DOMAIN pc :
    /\ Exported(r)
    /\ Len(frame[r].summary_df.rows) = 1
    /\ frame[r].summary_df.rows[1].players_count.v >= 11
    /\ frame[r].summary_df.rows[1].substitutes_count.v >= 1

\* Request r has made its file names.
Stamped(r) == pc[r] \in {"export", "notify", "post", "await"} \/ Exported(r)

\* C7: the home-team segment of the two file names is home_team with each
\* "/" turned into "_", or "HOME" for an empty home_team; it holds no "/";
\* and the names are fineplay_application_summary_{segment}_{timestamp}.csv
\* and fineplay_application_players_{segment}_{timestamp}.csv.
C7_SafeHomeSegment ==
  \A r \in DOMAIN pc :
    Stamped(r) =>
      LET h   == body[r].home_team.v
          seg == frame[r].safe_home
      IN
      /\ h = "" => seg = "HOME"
      /\ h # "" =>
           /\ Len(seg) = Len(h)
           /\ \A i \in 1..Len(h) :
                CharAt(seg, i) = IF CharAt(h, i) = "/" THEN "_" ELSE CharAt(h, i)
      /\ ~Contains(seg, "/")
      /\ frame[r].summary_filename =
           "fineplay_application_summary_" \o seg \o "_" \o frame[r].ts \o ".csv"
      /\ frame[r].players_filename =
           "fineplay_application_players_" \o seg \o "_" \o frame[r].ts \o ".csv"
      /\ ~Contains(frame[r].summary_filename, "/")
      /\ ~Contains(frame[r].players_filename, "/")

\* File names were made for a home team with two slashes.
C7_Witness ==
  \E r \in DOMAIN pc :
    /\ Stamped(r)
    /\ body[r].home_team.v = "A/B/C"
    /\ frame[r].safe_home = "A_B_C"

IsPrefix(a, b) == Len(a) <= Len(b) /\ \A i \in 1..Len(a) : a[i] = b[i]

\* The value of each character of the base64 alphabet.
B64Index ==
  [c \in {CharAt(B64Alphabet, i) : i \in 1..Len(B64Alphabet)} |->
     (CHOOSE i \in 1..Len(B64Alphabet) : CharAt(B64Alphabet, i) = c) - 1]
  @@ <<>>

\* The text is made of base64 characters, padded at the end only.
IsBase64(s) ==
  /\ Len(s) % 4 = 0
  /\ \A i \in 1..Len(s) :
       \/ CharAt(s, i) \in DOMAIN B64Index
       \/ CharAt(s, i) = "=" /\ i >= Len(s) - 1
            /\ (i = Len(s) - 1 => CharAt(s, Len(s)) = "=")

\* The bytes a base64 text stands for.
B64Decode(s) ==
  LET n      == Len(s)
      pad    == IF n > 0 /\ CharAt(s, n) = "="
                  THEN (IF CharAt(s, n - 1) = "=" THEN 2 ELSE 1)
                  ELSE 0
      six(i) == IF CharAt(s, i) = "=" THEN 0 ELSE B64Index[CharAt(s, i)]
  IN  [k \in 1..(3 * (n \div 4) - pad) |->
         LET g == 4 * ((k - 1) \div 3)
             p == (k - 1) % 3
         IN  IF p = 0 THEN six(g + 1) * 4 + (six(g + 2) \div 16)
             ELSE IF p = 1 THEN (six(g + 2) % 16) * 16 + (six(g + 3) \div 4)
             ELSE (six(g + 3) % 4) * 64 + six(g + 4)]

\* C8: a request the schema and the roster check accept goes through
\* export, sender and response in that order; the sender is entered once,
\* with two attachments, the summary file then the players file; at most
\* one mail leaves, and it carries every attachment handed to the sender, in
\* order, under its file name and type, its content the base64 text of the
\* attachment's bytes.
C8_ExportSendRespond ==
  \A r \in DOMAIN pc :
    (SchemaValid(body[r]) /\ RosterSize(r) >= 11) =>
      /\ \/ IsPrefix(trace[r], <<"export", "sender", "post", "respond">>)
         \/ IsPrefix(trace[r], <<"export", "sender", "respond">>)
      /\ pc[r] = "done" =>
           /\ trace[r][Len(trace[r])] = "respond"
           /\ Count(trace[r], "export") = 1
           /\ Count(trace[r], "sender") = 1
      /\ Has(trace[r], "sender") =>
           /\ Len(frame[r].attachments) = 2
           /\ frame[r].attachments[1] =
                [filename |-> frame[r].summary_filename,
                 data     |-> Utf8SigEncode(ToCsv(frame[r].summary_df)),
                 type     |-> "text/csv"]
           /\ frame[r].attachments[2] =
                [filename |-> frame[r].players_filename,
                 data     |-> Utf8SigEncode(ToCsv(frame[r].players_df)),
                 type     |-> "text/csv"]
      /\ Len(posted[r]) <= 1
      /\ \A k \in 1..Len(posted[r]) :
           LET sg   == posted[r][k].attachments
               atts == frame[r].attachments
           IN  /\ Len(sg) = Len(atts)
               /\ \A i \in 1..Len(atts) :
                    /\ sg[i].filename = atts[i].filename
                    /\ sg[i].type = atts[i].type
                    /\ sg[i].disposition = "attachment"
                    /\ IsBase64(sg[i].content)
                    /\ B64Decode(sg[i].content) = atts[i].data

\* A request was answered after its mail, with both files, had left.
C8_Witness ==
  \E r \in DOMAIN pc :
    /\ pc[r] = "done" /\ response[r].status = 200
    /\ trace[r] = <<"export", "sender", "post", "respond">>
    /\ Len(posted[r]) = 1
    /\ Len(posted[r][1].attachments) = 2

\* What a request with body b ends with when it is handled from start to
\* end with nothing else running, in environment e, the provider answering
\* ans when it is called.
AloneResponse(b, e, ans) ==
  IF ~SchemaValid(b) THEN ValidationError
  ELSE
    LET data == ParseApplication(b) IN
    IF Len(data.players) + Len(data.substitutes) < 11 THEN BadRequest
    ELSE IF ApiKeyMissing(EnvGet(e, "SENDGRID_API_KEY")) THEN KeyNotSet
    ELSE AfterPost(ans, ToEmail(e))

\* What that request hands to the provider, the clock being read at now.
AlonePosted(b, e, now) ==
  IF ~SchemaValid(b) THEN <<>>
  ELSE
    LET data  == ParseApplication(b)
        total == Len(data.players) + Len(data.substitutes)
    IN
    IF total < 11 \/ ApiKeyMissing(EnvGet(e, "SENDGRID_API_KEY")) THEN <<>>
    ELSE
      LET ts          == Strftime(now)
          safe_home   == SafeHome(data.home_team)
          attachments ==
            Attachments(SummaryFilename(safe_home, ts),
                        CsvBytes(SummaryDf(data, ts, total)),
                        PlayersFilename(safe_home, ts),
                        CsvBytes(PlayersDf(PlayerRows(data))))
      IN  <<Payload(EnvGet(e, "SENDGRID_API_KEY"), FromEmail(e), ToEmail(e),
                    Subject, Content, attachments)>>

\* AlonePosted for every input of a concurrent run.
AlonePostedOf ==
  [b \in ConcurrentBodies, e \in ConcurrentEnvs,
   now \in UNION {c..(c + MaxTicks) : c \in ConcurrentClockStarts} |->
     AlonePosted(b, e, now)]
  @@ <<>>

\* The clock value request r read, when it read one.
ReadingOf(r) ==
  IF frame[r].ts = "" THEN clock
  ELSE CHOOSE n \in (clock - ticks)..clock : Strftime(n) = frame[r].ts

\* C9: with requests handled concurrently, in any interleaving, a finished
\* request has the response, and has handed the provider the recipient and
\* attachments, that it has when handled alone with the same body,
\* environment, clock reading and provider answer.
C9_SameAsAlone ==
  \A r \in DOMAIN pc :
    pc[r] = "done" =>
      /\ response[r] = AloneResponse(body[r], env, frame[r].r)
      /\ posted[r] = AlonePostedOf[body[r], env, ReadingOf(r)]

\* Both requests were accepted with different bodies; r1 read the clock
\* after r2 did and was answered while r2 was still waiting for the provider.
C9_Witness ==
  /\ DOMAIN pc = Reqs
  /\ body["r1"] # body["r2"]
  /\ pc["r1"] = "done" /\ response["r1"].status = 200
  /\ pc["r2"] = "await"
  /\ frame["r2"].ts = Strftime(clock - 1)
  /\ frame["r1"].ts = Strftime(clock)

\* The timestamp of a generated file name: the 15 characters before ".csv".
TsOf(filename) == SubSeq(filename, Len(filename) - 18, Len(filename) - 4)

\* C10: in an accepted request the created_at_utc of the summary row and the
\* timestamps of the summary and players file names are one value, a single
\* reading of the clock, whatever the clock does meanwhile.
C10_OneTimestamp ==
  \A r \in DOMAIN pc :
    Exported(r) =>
      LET created == frame[r].summary_df.rows[1].created_at_utc IN
      /\ created.k = "str"
      /\ Len(created.v) = 15
      /\ TsOf(frame[r].summary_filename) = created.v
      /\ TsOf(frame[r].players_filename) = created.v
      /\ \E n \in (clock - ticks)..clock : created.v = Strftime(n)
      /\ Has(trace[r], "sender") =>
           /\ TsOf(frame[r].attachments[1].filename) = created.v
           /\ TsOf(frame[r].attachments[2].filename) = created.v

\* An export exists whose timestamp is no longer the clock's: the clock
\* advanced during the request.
C10_Witness ==
  \E r \in DOMAIN pc :
    /\ Exported(r)
    /\ pc[r] # "done"
    /\ frame[r].ts # Strftime(clock)
    /\ frame[r].summary_df.rows[1].created_at_utc.v = frame[r].ts

====
